---- MODULE Spec2Model ----
(***************************************************************************)
(* Model of the AlbumTracker store (src/src/Store.jsx): the in-memory      *)
(* snapshot `data`, the mode and its selection by init, the mutation       *)
(* gateway (actions.add / update / delete / saveSettings) in local and in  *)
(* cloud mode, the remote subscriptions, connectCloud / disconnect, and    *)
(* the cost rollup (`stats`, processNode).                                 *)
(*                                                                         *)
(* JavaScript objects are modelled as functions from field names to        *)
(* values; a field that is absent (undefined) is a name outside DOMAIN.    *)
(* Identifier 0 stands for a falsy identifier (undefined / null / "").     *)
(***************************************************************************)
EXTENDS Integers, Sequences, FiniteSets, TLC

VARIABLES
  mode,     \* useState('loading'): "loading", "local" or "cloud"
  data,     \* the in-memory snapshot: six lists and the settings object
  stats,    \* the useMemo value {min, max, act} of the last render
  storage,  \* localStorage: the saved remote configuration and the local blob
  uuid,     \* how many identifiers crypto.randomUUID() has handed out
  pending,  \* a render was committed and its effects have not run yet
  lastOp,   \* history: the last handler that ran, its collection and how many
            \* records of that collection its id argument named
  user,     \* useState(null): the signed-in user
  db,       \* useState(null): the Firestore handle
  initAt,   \* where init is: "start", "signIn" (suspended at line 26),
            \* "returned" or "rejected"
  remote,   \* the remote store: the documents of each collection of this user
  autoId,   \* how many document identifiers addDoc has generated
  subs,     \* per collection, the state of the listener of the last effect run
  reloads,  \* how many times the page was reloaded
  trip      \* history: the stats a connectCloud call left behind in local mode,
            \* whether disconnect followed, and whether a snapshot has shown
            \* other stats since

cloudVars == <<user, db, remote, autoId, subs>>

vars == <<mode, data, stats, storage, uuid, pending, lastOp,
          user, db, initAt, remote, autoId, subs, reloads, trip>>

(***************************************************************************)
(* Bounds of the explored inputs.                                          *)
(***************************************************************************)
\* records (tasks plus misc expenses) the rollup scenarios build
MaxTasks == 3
\* estimated costs range over 0..MaxCost, actual costs over {0, MaxCost + 1}
MaxCost == 1
\* misc expenses the rollup scenarios build
MaxMisc == 2
\* add calls the gateway scenarios make
MaxAdds == 2

(***************************************************************************)
(* Object helpers.                                                         *)
(***************************************************************************)
\* r.f || 0 for a numeric or identifier field: absent and 0 are both falsy.
Num(r, f) == IF f \in DOMAIN r THEN r[f] ELSE 0

\* Truthiness of a boolean flag field: absent is falsy.
Flag(r, f) == IF f \in DOMAIN r THEN r[f] ELSE FALSE

\* r.type, "" when absent.
TypeOf(r) == IF "type" \in DOMAIN r THEN r["type"] ELSE ""

\* { ...a, ...b }: b's fields win, a's other fields are kept.
Spread(a, b) ==
  [f \in (DOMAIN a) \cup (DOMAIN b) |-> IF f \in DOMAIN b THEN b[f] ELSE a[f]]

RECURSIVE SumSeq(_)
SumSeq(s) == IF s = <<>> THEN 0 ELSE Head(s) + SumSeq(Tail(s))

MinOf(S) == CHOOSE x \in S : \A y \in S : x <= y
MaxOf(S) == CHOOSE x \in S : \A y \in S : x >= y

(***************************************************************************)
(* The cost rollup, Store.jsx lines 74-115.                                *)
(***************************************************************************)
\* Mutant: the archived filter is forgotten.
VisibleAll(tasks) == tasks

\* data.tasks.filter(t => !t.archived)
Visible(tasks) == SelectSeq(tasks, LAMBDA t : ~Flag(t, "archived"))

\* visible.filter(t => t.parentId === nodeId)
ChildrenOf(visible, nodeId) ==
  SelectSeq(visible, LAMBDA t : Num(t, "parentId") = nodeId)

\* visible.find(v => v.id === nodeId): the index of the first match, 0 if none.
FindIdx(visible, nodeId) ==
  IF \E i \in 1..Len(visible) : Num(visible[i], "id") = nodeId
  THEN MinOf({i \in 1..Len(visible) : Num(visible[i], "id") = nodeId})
  ELSE 0

\* const selfAct = t?.actualCost || 0   (hasT: t was found)
SelfAct(hasT, t) == IF hasT THEN Num(t, "actualCost") ELSE 0

\* Mutant: the estimate is taken before the quote.
SelfEstEstimatedFirst(hasT, t) ==
  IF SelfAct(hasT, t) > 0 THEN SelfAct(hasT, t)
  ELSE IF ~hasT THEN 0
  ELSE IF Num(t, "estimatedCost") # 0 THEN Num(t, "estimatedCost")
  ELSE Num(t, "quotedCost")

\* const selfEst = selfAct > 0 ? selfAct : (t?.quotedCost || t?.estimatedCost || 0)
SelfEst(hasT, t) ==
  IF SelfAct(hasT, t) > 0 THEN SelfAct(hasT, t)
  ELSE IF ~hasT THEN 0
  ELSE IF Num(t, "quotedCost") # 0 THEN Num(t, "quotedCost")
  ELSE Num(t, "estimatedCost")

Triple(mn, mx, ac) == [min |-> mn, max |-> mx, act |-> ac, thrown |-> FALSE]

\* The recursion never returns (the engine throws a RangeError) when it is
\* deeper than the number of tasks: modelled by the thrown flag.
Thrown == [min |-> 0, max |-> 0, act |-> 0, thrown |-> TRUE]

\* Mutant: the optional flag is not looked at.
LeafTripleNoOptional(t) ==
  Triple(SelfEst(TRUE, t), SelfEst(TRUE, t), SelfAct(TRUE, t))

\* The leaf return of processNode, line 86.
LeafTriple(t) ==
  Triple(IF Flag(t, "isOptional") /\ SelfAct(TRUE, t) = 0 THEN 0 ELSE SelfEst(TRUE, t),
         SelfEst(TRUE, t),
         SelfAct(TRUE, t))

\* Mutant: without a selection the greatest min and the least max are taken.
ChoicePartSwapped(children, optionCosts, selectedId) ==
  IF selectedId # 0
  THEN IF \E i \in 1..Len(children) : Num(children[i], "id") = selectedId
       THEN LET i == MinOf({j \in 1..Len(children) : Num(children[j], "id") = selectedId})
            IN  <<optionCosts[i].min, optionCosts[i].max, optionCosts[i].act>>
       ELSE <<0, 0, 0>>
  ELSE IF Len(optionCosts) > 0
       THEN <<MaxOf({optionCosts[i].min : i \in 1..Len(optionCosts)}),
              MinOf({optionCosts[i].max : i \in 1..Len(optionCosts)}),
              0>>
       ELSE <<0, 0, 0>>

\* The choice_group branch of processNode, lines 90-99: <<pMin, pMax, pAct>>.
ChoicePart(children, optionCosts, selectedId) ==
  IF selectedId # 0
  THEN IF \E i \in 1..Len(children) : Num(children[i], "id") = selectedId
       THEN LET i == MinOf({j \in 1..Len(children) : Num(children[j], "id") = selectedId})
            IN  <<optionCosts[i].min, optionCosts[i].max, optionCosts[i].act>>
       ELSE <<0, 0, 0>>
  ELSE IF Len(optionCosts) > 0
       THEN <<MinOf({optionCosts[i].min : i \in 1..Len(optionCosts)}),
              MaxOf({optionCosts[i].max : i \in 1..Len(optionCosts)}),
              0>>
       ELSE <<0, 0, 0>>

\* Mutant: a plain branch takes the greatest child figure instead of the sum.
SumPartMax(optionCosts) ==
  <<MaxOf({optionCosts[i].min : i \in 1..Len(optionCosts)}),
    MaxOf({optionCosts[i].max : i \in 1..Len(optionCosts)}),
    MaxOf({optionCosts[i].act : i \in 1..Len(optionCosts)})>>

\* The plain branch of processNode, lines 101-104.
SumPart(optionCosts) ==
  <<SumSeq([i \in 1..Len(optionCosts) |-> optionCosts[i].min]),
    SumSeq([i \in 1..Len(optionCosts) |-> optionCosts[i].max]),
    SumSeq([i \in 1..Len(optionCosts) |-> optionCosts[i].act])>>

\* Lines 106-107: if (t) pAct += (t.actualCost || 0);
\* return { min: pMin + selfEst, max: pMax + selfEst, act: pAct + selfAct }
BranchReturn(hasT, t, p) ==
  Triple(p[1] + SelfEst(hasT, t),
         p[2] + SelfEst(hasT, t),
         (p[3] + (IF hasT THEN Num(t, "actualCost") ELSE 0)) + SelfAct(hasT, t))

RECURSIVE processNodeD(_, _, _)
processNodeD(visible, nodeId, depth) ==
  IF depth > Len(visible) + 1 THEN Thrown
  ELSE
  LET children == ChildrenOf(visible, nodeId)
      ti       == FindIdx(visible, nodeId)
      hasT     == ti # 0
      t        == IF hasT THEN visible[ti] ELSE <<>>
  IN  IF Len(children) = 0
      THEN IF ~hasT THEN Triple(0, 0, 0) ELSE LeafTriple(t)
      ELSE
      LET optionCosts ==
            [i \in 1..Len(children) |->
               processNodeD(visible, Num(children[i], "id"), depth + 1)]
          isChoice == hasT /\ TypeOf(t) = "choice_group"
          p == IF isChoice
               THEN ChoicePart(children, optionCosts, Num(t, "selectedOptionId"))
               ELSE SumPart(optionCosts)
      IN  IF \E i \in 1..Len(children) : optionCosts[i].thrown
          THEN Thrown
          ELSE BranchReturn(hasT, t, p)

processNode(visible, nodeId) == processNodeD(visible, nodeId, 1)

\* Mutant: a task whose parent is not among the visible tasks is a root too.
RootsWithOrphans(visible) ==
  SelectSeq(visible, LAMBDA t :
    \/ Num(t, "parentId") = 0
    \/ \A k \in 1..Len(visible) : Num(visible[k], "id") # Num(t, "parentId"))

\* Mutant: a task that names itself as parent is taken for a root too.
RootsSelfParent(visible) ==
  SelectSeq(visible, LAMBDA t : Num(t, "parentId") = 0 \/ Num(t, "parentId") = Num(t, "id"))

\* visible.filter(t => !t.parentId)
Roots(visible) == SelectSeq(visible, LAMBDA t : Num(t, "parentId") = 0)

\* Mutant: only the last misc amount is kept.
MiscTotalLast(misc) == IF misc = <<>> THEN 0 ELSE Num(misc[Len(misc)], "amount")

\* (data.misc || []).reduce((s, i) => s + (i.amount || 0), 0)
MiscTotal(misc) == SumSeq([i \in 1..Len(misc) |-> Num(misc[i], "amount")])

\* The stats memo, lines 74-115.
Stats(tasks, misc) ==
  LET visible == Visible(tasks)
      roots   == Roots(visible)
      rs      == [i \in 1..Len(roots) |-> processNode(visible, Num(roots[i], "id"))]
      mt      == MiscTotal(misc)
  IN  IF \E i \in 1..Len(roots) : rs[i].thrown
      THEN Thrown
      ELSE Triple(SumSeq([i \in 1..Len(roots) |-> rs[i].min]) + mt,
                  SumSeq([i \in 1..Len(roots) |-> rs[i].max]) + mt,
                  SumSeq([i \in 1..Len(roots) |-> rs[i].act]) + mt)

(***************************************************************************)
(* The store state, Store.jsx lines 11-15.                                 *)
(***************************************************************************)
\* An object without fields, {}.
EmptyObj == [f \in {} |-> 0]

\* useState({ tasks: [], photos: [], vendors: [], misc: [], events: [], stages: [], settings: {} })
InitialData ==
  [tasks |-> <<>>, photos |-> <<>>, vendors |-> <<>>, misc |-> <<>>,
   events |-> <<>>, stages |-> <<>>, settings |-> EmptyObj]

ListKeys == {"tasks", "photos", "vendors", "misc", "events", "stages"}

\* col === 'misc_expenses' ? 'misc' : col
Key(col) == IF col = "misc_expenses" THEN "misc" ELSE col

\* crypto.randomUUID(): the n-th identifier handed out; never 0, never repeated.
RandomUUID(n) == n

\* The identifiers 's1'..'s4' of the default stages, kept apart from the UUIDs.
StageId(k) == 100 + k

StageName(k) ==
  <<"Stage 1: Arrangements", "Stage 2: Pre-Production",
    "Stage 3: Recording", "Stage 4: Mixing/Mastering">>[k]

\* const defaults = [...], lines 64-69.
defaults == [k \in 1..4 |-> [id |-> StageId(k), name |-> StageName(k), order |-> k]]

\* Mutant: only the lists are stored.
StringifyNoSettings(d) ==
  [kind |-> "json", value |-> [k \in DOMAIN d \ {"settings"} |-> d[k]]]

\* JSON.stringify(data) as stored under appId.
Stringify(d) == [kind |-> "json", value |-> d]

\* What localStorage holds when the key was never written.
NoItem == [kind |-> "null", value |-> EmptyObj]

\* A stored string that JSON.parse throws on.
Corrupt == [kind |-> "corrupt", value |-> EmptyObj]

\* JSON.parse(localStorage.getItem(appId)) || {}
ParseOrEmpty(b) == IF b.kind = "json" THEN b.value ELSE EmptyObj

Op(name, col, hit) == [op |-> name, col |-> col, hit |-> hit]

\* How many records of the list carry the identifier.
Hits(list, id) == Cardinality({k \in 1..Len(list) : Num(list[k], "id") = id})

\* The collections the scenarios use, of the six of line 42.
Cols == {"tasks", "misc_expenses", "stages"}

\* The reserved document identifier 'settings', kept apart from all others.
SettingsId == 200

\* serverTimestamp(): the value the server fills in.
ServerTimestamp == 1

NoDocs == [c \in Cols |-> <<>>]

NoSubs == [c \in Cols |-> "off"]

NoTrip == [stage |-> "none", stats |-> Stats(<<>>, <<>>), seen |-> FALSE]

Init ==
  /\ mode = "loading"
  /\ data = InitialData
  /\ stats = Stats(InitialData.tasks, InitialData.misc)
  /\ storage = [config |-> "none", blob |-> NoItem]
  /\ uuid = 0
  /\ pending = TRUE
  /\ lastOp = Op("mount", "", 0)
  /\ user = "null"
  /\ db = "null"
  /\ initAt = "start"
  /\ remote = NoDocs
  /\ autoId = 0
  /\ subs = NoSubs
  /\ reloads = 0
  /\ trip = NoTrip

(***************************************************************************)
(* init, lines 17-38.  The mount effect runs its body up to the first      *)
(* await before any handler can be called.  A saved configuration is       *)
(* "valid" when JSON.parse, initializeApp, getAuth and getFirestore accept *)
(* it and "invalid" when one of them throws.                               *)
(***************************************************************************)
\* Lines 33-35.  JSON.parse throws on a corrupt blob, outside the try block:
\* the promise of init is rejected and nothing is set.
LocalPath ==
  IF storage.blob.kind = "corrupt"
  THEN /\ initAt' = "rejected"
       /\ pending' = FALSE
       /\ UNCHANGED <<data, mode, stats>>
  ELSE /\ data' = Spread(data, ParseOrEmpty(storage.blob))
       /\ mode' = "local"
       /\ stats' = Stats(data'.tasks, data'.misc)
       /\ pending' = TRUE
       /\ initAt' = "returned"

init ==
  /\ mode = "loading"
  /\ pending
  /\ initAt = "start"
  /\ IF storage.config = "valid"
     THEN /\ initAt' = "signIn"
          /\ pending' = FALSE
          /\ UNCHANGED <<data, mode, stats>>
     ELSE LocalPath
  /\ lastOp' = Op("init", "", 0)
  /\ UNCHANGED <<storage, uuid, cloudVars, reloads, trip>>

\* Lines 26-30: signInAnonymously resolved.
signInResolved ==
  /\ initAt = "signIn"
  /\ ~pending
  /\ user' = "anonymous"
  /\ db' = "firestore"
  /\ mode' = "cloud"
  /\ initAt' = "returned"
  /\ pending' = TRUE
  /\ lastOp' = Op("signInResolved", "", 0)
  /\ UNCHANGED <<data, stats, storage, uuid, remote, autoId, subs, reloads, trip>>

\* Lines 26 and 31-35: signInAnonymously rejected, the error is logged and
\* init goes on with the local path.
signInRejected ==
  /\ initAt = "signIn"
  /\ ~pending
  /\ LocalPath
  /\ lastOp' = Op("signInRejected", "", 0)
  /\ UNCHANGED <<storage, uuid, cloudVars, reloads, trip>>

(***************************************************************************)
(* The effects that run after a committed render: the subscription and     *)
(* persistence effect (lines 40-60), which in cloud mode cancels the       *)
(* listeners of its previous run and opens one per collection and in local *)
(* mode stores the snapshot, then the seeding effect (62-72), whose        *)
(* setData commits another render.                                         *)
(***************************************************************************)
\* Mutant: the snapshot is stored whatever the mode is.
effectsPersistAlways ==
  /\ pending
  /\ initAt # "start"
  /\ IF mode = "cloud" /\ db # "null" /\ user # "null"
     THEN /\ subs' = [c \in Cols |-> "listening"]
          /\ storage' = [storage EXCEPT !.blob = Stringify(data)]
     ELSE IF mode = "local"
     THEN /\ storage' = [storage EXCEPT !.blob = Stringify(data)]
          /\ UNCHANGED subs
     ELSE /\ storage' = [storage EXCEPT !.blob = Stringify(data)]
          /\ UNCHANGED subs
  /\ IF mode = "local" /\ Len(data.stages) = 0
     THEN /\ data' = [data EXCEPT !.stages = defaults]
          /\ pending' = TRUE
     ELSE /\ data' = data
          /\ pending' = FALSE
  /\ stats' = Stats(data'.tasks, data'.misc)
  /\ lastOp' = Op("effects", "", 0)
  /\ UNCHANGED <<mode, uuid, user, db, initAt, remote, autoId, reloads, trip>>

\* Mutant: the default stages are installed whatever the mode is.
effectsSeedAlways ==
  /\ pending
  /\ initAt # "start"
  /\ IF mode = "cloud" /\ db # "null" /\ user # "null"
     THEN /\ subs' = [c \in Cols |-> "listening"]
          /\ UNCHANGED storage
     ELSE IF mode = "local"
     THEN /\ storage' = [storage EXCEPT !.blob = Stringify(data)]
          /\ UNCHANGED subs
     ELSE UNCHANGED <<storage, subs>>
  /\ IF Len(data.stages) = 0
     THEN /\ data' = [data EXCEPT !.stages = defaults]
          /\ pending' = TRUE
     ELSE /\ data' = data
          /\ pending' = FALSE
  /\ stats' = Stats(data'.tasks, data'.misc)
  /\ lastOp' = Op("effects", "", 0)
  /\ UNCHANGED <<mode, uuid, user, db, initAt, remote, autoId, reloads, trip>>

\* Mutant: the default stages are installed on the first run only.
effectsSeedOnce ==
  /\ pending
  /\ initAt # "start"
  /\ IF mode = "cloud" /\ db # "null" /\ user # "null"
     THEN /\ subs' = [c \in Cols |-> "listening"]
          /\ UNCHANGED storage
     ELSE IF mode = "local"
     THEN /\ storage' = [storage EXCEPT !.blob = Stringify(data)]
          /\ UNCHANGED subs
     ELSE UNCHANGED <<storage, subs>>
  /\ IF mode = "local" /\ Len(data.stages) = 0 /\ storage.blob.kind = "null"
     THEN /\ data' = [data EXCEPT !.stages = defaults]
          /\ pending' = TRUE
     ELSE /\ data' = data
          /\ pending' = FALSE
  /\ stats' = Stats(data'.tasks, data'.misc)
  /\ lastOp' = Op("effects", "", 0)
  /\ UNCHANGED <<mode, uuid, user, db, initAt, remote, autoId, reloads, trip>>

effects ==
  /\ pending
  /\ initAt # "start"
  /\ IF mode = "cloud" /\ db # "null" /\ user # "null"
     THEN /\ subs' = [c \in Cols |-> "listening"]
          /\ UNCHANGED storage
     ELSE IF mode = "local"
     THEN /\ storage' = [storage EXCEPT !.blob = Stringify(data)]
          /\ UNCHANGED subs
     ELSE UNCHANGED <<storage, subs>>
  /\ IF mode = "local" /\ Len(data.stages) = 0
     THEN /\ data' = [data EXCEPT !.stages = defaults]
          /\ pending' = TRUE
     ELSE /\ data' = data
          /\ pending' = FALSE
  /\ stats' = Stats(data'.tasks, data'.misc)
  /\ lastOp' = Op("effects", "", 0)
  /\ UNCHANGED <<mode, uuid, user, db, initAt, remote, autoId, reloads, trip>>

(***************************************************************************)
(* The remote subscriptions, lines 42-55.  A listener that was opened is   *)
(* "listening" until the server has answered its query, then its callback  *)
(* is "due"; after the callback it is "idle" until the collection changes. *)
(***************************************************************************)
\* snap.docs.map(d => ({ id: d.id, ...d.data() }))
SnapList(docs) ==
  [k \in 1..Len(docs) |-> Spread([id |-> docs[k].id], docs[k].data)]

\* col.replace('album_', '').replace('_expenses', '')
SliceOf(col) == IF col = "misc_expenses" THEN "misc" ELSE col

\* Mutant: the reserved record is left among the tasks.
OnSnapshotKeepAll(prev, col, list) ==
  IF col = "tasks"
  THEN [prev EXCEPT
          !.tasks = list,
          !.settings =
            IF \E k \in 1..Len(list) : Num(list[k], "id") = SettingsId
            THEN list[CHOOSE k \in 1..Len(list) :
                        /\ Num(list[k], "id") = SettingsId
                        /\ \A j \in 1..(k - 1) : Num(list[j], "id") # SettingsId]
            ELSE @]
  ELSE [prev EXCEPT ![SliceOf(col)] = list]

\* Mutant: the delivered records are added to the ones held.
OnSnapshotPatch(prev, col, list) ==
  IF col = "tasks"
  THEN [prev EXCEPT
          !.tasks = @ \o SelectSeq(list, LAMBDA d : Num(d, "id") # SettingsId),
          !.settings =
            IF \E k \in 1..Len(list) : Num(list[k], "id") = SettingsId
            THEN list[CHOOSE k \in 1..Len(list) :
                        /\ Num(list[k], "id") = SettingsId
                        /\ \A j \in 1..(k - 1) : Num(list[j], "id") # SettingsId]
            ELSE @]
  ELSE [prev EXCEPT ![SliceOf(col)] = @ \o list]

\* The setData of the callback, lines 46-53.
OnSnapshot(prev, col, list) ==
  IF col = "tasks"
  THEN [prev EXCEPT
          !.tasks = SelectSeq(list, LAMBDA d : Num(d, "id") # SettingsId),
          !.settings =
            IF \E k \in 1..Len(list) : Num(list[k], "id") = SettingsId
            THEN list[CHOOSE k \in 1..Len(list) :
                        /\ Num(list[k], "id") = SettingsId
                        /\ \A j \in 1..(k - 1) : Num(list[j], "id") # SettingsId]
            ELSE @]
  ELSE [prev EXCEPT ![SliceOf(col)] = list]

\* The server answers the query of a listener.
respond(col) ==
  /\ subs[col] = "listening"
  /\ subs' = [subs EXCEPT ![col] = "due"]
  /\ UNCHANGED <<mode, data, stats, storage, uuid, pending, lastOp,
                 user, db, initAt, remote, autoId, reloads, trip>>

\* The callback of onSnapshot, lines 44-54.
snapshot(col) ==
  /\ subs[col] = "due"
  /\ ~pending
  /\ data' = OnSnapshot(data, col, SnapList(remote[col]))
  /\ stats' = Stats(data'.tasks, data'.misc)
  /\ pending' = TRUE
  /\ subs' = [subs EXCEPT ![col] = "idle"]
  /\ lastOp' = Op("snapshot", col, 0)
  /\ trip' = IF trip.stage = "connect" /\ stats' # trip.stats
             THEN [trip EXCEPT !.seen = TRUE]
             ELSE trip
  /\ UNCHANGED <<mode, storage, uuid, user, db, initAt, remote, autoId, reloads>>

\* A change of a collection reaches its listener.
Notify(col) ==
  [subs EXCEPT ![col] = IF @ \in {"idle", "due"} THEN "due" ELSE @]

(***************************************************************************)
(* The mutation gateway, lines 117-139.  When mode is not 'cloud' every    *)
(* handler is one setData call, and the render it commits recomputes       *)
(* stats; in cloud mode it is one write to the remote store.               *)
(***************************************************************************)
\* [...(p[key] || []), {id: crypto.randomUUID(), ...item}]
AddTo(list, n, item) == Append(list, Spread([id |-> RandomUUID(n)], item))

\* Mutant: the payload replaces the record instead of being merged into it.
UpdateInReplace(list, id, item) ==
  [k \in 1..Len(list) |-> IF Num(list[k], "id") = id THEN item ELSE list[k]]

\* Mutant: the merged record is pushed and the old one is kept.
UpdateInAppend(list, id, item) ==
  list \o [k \in 1..Hits(list, id) |->
            Spread(list[CHOOSE j \in 1..Len(list) : Num(list[j], "id") = id], item)]

\* p[key].map(i => i.id === id ? { ...i, ...item } : i)
UpdateIn(list, id, item) ==
  [k \in 1..Len(list) |-> IF Num(list[k], "id") = id THEN Spread(list[k], item) ELSE list[k]]

\* p[key].filter(i => i.id !== id)
DeleteFrom(list, id) == SelectSeq(list, LAMBDA i : Num(i, "id") # id)

Commit(d, op) ==
  /\ data' = d
  /\ stats' = Stats(d.tasks, d.misc)
  /\ pending' = TRUE
  /\ lastOp' = op

\* The documents of a collection are listed in the order of their
\* identifiers; a new identifier falls anywhere in that order.
InsertAt(docs, pos, d) == SubSeq(docs, 1, pos - 1) \o <<d>> \o SubSeq(docs, pos, Len(docs))

HasDoc(docs, id) == \E k \in 1..Len(docs) : docs[k].id = id

\* updateDoc / setDoc with merge: the fields of the payload are written.
MergeDoc(docs, id, item) ==
  [k \in 1..Len(docs) |->
     IF docs[k].id = id THEN [docs[k] EXCEPT !.data = Spread(@, item)] ELSE docs[k]]

\* A write to the remote store: nothing of the component state is set.
Remote(r, col, op) ==
  /\ remote' = r
  /\ subs' = IF r = remote THEN subs ELSE Notify(col)
  /\ lastOp' = op
  /\ UNCHANGED <<data, stats, pending>>

\* Mutant: a write in cloud mode drops the store to local mode.
addFallsBack(col, item) ==
  /\ ~pending
  /\ IF mode = "cloud"
     THEN /\ autoId' = autoId + 1
          /\ \E pos \in 1..(Len(remote[col]) + 1) :
               /\ remote' = [remote EXCEPT ![col] =
                     InsertAt(@, pos, [id |-> autoId + 1,
                        data |-> Spread(item, [createdAt |-> ServerTimestamp])])]
               /\ subs' = Notify(col)
          /\ mode' = "local"
          /\ Commit(data, Op("add", col, 0))
          /\ UNCHANGED uuid
     ELSE /\ uuid' = uuid + 1
          /\ Commit([data EXCEPT ![Key(col)] = AddTo(@, uuid + 1, item)], Op("add", col, 0))
          /\ UNCHANGED <<remote, autoId, subs, mode>>
  /\ trip' = NoTrip
  /\ UNCHANGED <<storage, user, db, initAt, reloads>>

\* Mutant: the record is also put into the in-memory list.
addOptimistic(col, item) ==
  /\ ~pending
  /\ IF mode = "cloud"
     THEN /\ autoId' = autoId + 1
          /\ \E pos \in 1..(Len(remote[col]) + 1) :
               /\ remote' = [remote EXCEPT ![col] =
                     InsertAt(@, pos, [id |-> autoId + 1,
                        data |-> Spread(item, [createdAt |-> ServerTimestamp])])]
               /\ subs' = Notify(col)
          /\ Commit([data EXCEPT ![Key(col)] = AddTo(@, autoId + 1, item)], Op("add", col, 0))
          /\ UNCHANGED uuid
     ELSE /\ uuid' = uuid + 1
          /\ Commit([data EXCEPT ![Key(col)] = AddTo(@, uuid + 1, item)], Op("add", col, 0))
          /\ UNCHANGED <<remote, autoId, subs>>
  /\ trip' = NoTrip
  /\ UNCHANGED <<mode, storage, user, db, initAt, reloads>>

add(col, item) ==
  /\ ~pending
  /\ IF mode = "cloud"
     THEN /\ autoId' = autoId + 1
          /\ \E pos \in 1..(Len(remote[col]) + 1) :
               Remote([remote EXCEPT ![col] =
                         InsertAt(@, pos, [id |-> autoId + 1,
                            data |-> Spread(item, [createdAt |-> ServerTimestamp])])],
                      col, Op("add", col, 0))
          /\ UNCHANGED uuid
     ELSE /\ uuid' = uuid + 1
          /\ Commit([data EXCEPT ![Key(col)] = AddTo(@, uuid + 1, item)], Op("add", col, 0))
          /\ UNCHANGED <<remote, autoId, subs>>
  /\ trip' = NoTrip
  /\ UNCHANGED <<mode, storage, user, db, initAt, reloads>>

\* In cloud mode updateDoc rejects when the document does not exist.
update(col, id, item) ==
  /\ ~pending
  /\ IF mode = "cloud"
     THEN Remote([remote EXCEPT ![col] = MergeDoc(@, id, item)], col,
                 Op("update", col, Cardinality({k \in 1..Len(remote[col]) : remote[col][k].id = id})))
     ELSE /\ Commit([data EXCEPT ![Key(col)] = UpdateIn(@, id, item)],
                    Op("update", col, Hits(data[Key(col)], id)))
          /\ UNCHANGED <<remote, subs>>
  /\ trip' = NoTrip
  /\ UNCHANGED <<mode, storage, uuid, user, db, initAt, autoId, reloads>>

delete(col, id) ==
  /\ ~pending
  /\ IF mode = "cloud"
     THEN Remote([remote EXCEPT ![col] = SelectSeq(@, LAMBDA d : d.id # id)], col,
                 Op("delete", col, Cardinality({k \in 1..Len(remote[col]) : remote[col][k].id = id})))
     ELSE /\ Commit([data EXCEPT ![Key(col)] = DeleteFrom(@, id)],
                    Op("delete", col, Hits(data[Key(col)], id)))
          /\ UNCHANGED <<remote, subs>>
  /\ trip' = NoTrip
  /\ UNCHANGED <<mode, storage, uuid, user, db, initAt, autoId, reloads>>

\* In cloud mode setDoc with merge creates the document 'settings' of the
\* tasks collection when it does not exist.
saveSettings(newSettings) ==
  /\ ~pending
  /\ IF mode = "cloud"
     THEN IF HasDoc(remote["tasks"], SettingsId)
          THEN Remote([remote EXCEPT !["tasks"] = MergeDoc(@, SettingsId, newSettings)],
                      "tasks", Op("saveSettings", "", 0))
          ELSE \E pos \in 1..(Len(remote["tasks"]) + 1) :
                 Remote([remote EXCEPT !["tasks"] =
                           InsertAt(@, pos, [id |-> SettingsId, data |-> newSettings])],
                        "tasks", Op("saveSettings", "", 0))
     ELSE /\ Commit([data EXCEPT !.settings = Spread(@, newSettings)],
                    Op("saveSettings", "", 0))
          /\ UNCHANGED <<remote, subs>>
  /\ trip' = NoTrip
  /\ UNCHANGED <<mode, storage, uuid, user, db, initAt, autoId, reloads>>

(***************************************************************************)
(* connectCloud and disconnect, lines 140-141: the configuration is        *)
(* written to localStorage and the page is reloaded, which throws the      *)
(* component state away and mounts the provider again.                     *)
(***************************************************************************)
\* Mutant: the listeners outlive the page.
ReloadLeaky(op) ==
  /\ mode' = "loading"
  /\ data' = InitialData
  /\ stats' = Stats(InitialData.tasks, InitialData.misc)
  /\ user' = "null"
  /\ db' = "null"
  /\ initAt' = "start"
  /\ subs' = subs
  /\ pending' = TRUE
  /\ reloads' = reloads + 1
  /\ lastOp' = op
  /\ UNCHANGED <<uuid, remote, autoId>>

\* window.location.reload()
Reload(op) ==
  /\ mode' = "loading"
  /\ data' = InitialData
  /\ stats' = Stats(InitialData.tasks, InitialData.misc)
  /\ user' = "null"
  /\ db' = "null"
  /\ initAt' = "start"
  /\ subs' = NoSubs
  /\ pending' = TRUE
  /\ reloads' = reloads + 1
  /\ lastOp' = op
  /\ UNCHANGED <<uuid, remote, autoId>>

connectCloud(config) ==
  /\ ~pending
  /\ storage' = [storage EXCEPT !.config = config]
  /\ Reload(Op("connectCloud", "", 0))
  /\ trip' = IF mode = "local"
             THEN [stage |-> "connect", stats |-> stats, seen |-> FALSE]
             ELSE trip

disconnect ==
  /\ ~pending
  /\ storage' = [storage EXCEPT !.config = "none"]
  /\ Reload(Op("disconnect", "", 0))
  /\ trip' = IF trip.stage = "connect" THEN [trip EXCEPT !.stage = "disconnect"] ELSE trip

(***************************************************************************)
(* The gateway scenarios: the calls the views make.                        *)
(***************************************************************************)
Names == {"a", "b"}

\* The identifiers a call can name.
Ids == 1..MaxAdds

\* Payloads: objects with any of the fields id and name.
Items ==
  {EmptyObj}
    \cup {[id |-> i] : i \in 1..MaxAdds}
    \cup {[name |-> n] : n \in Names}
    \cup {[id |-> i, name |-> n] : i \in 1..MaxAdds, n \in Names}

SettingsItems == {EmptyObj} \cup {[name |-> n] : n \in Names}

\* A payload can carry an identifier only by copying one that was handed out.
Known(item) == "id" \in DOMAIN item => item["id"] <= uuid

CallAdd ==
  \E col \in Cols, item \in Items : uuid < MaxAdds /\ Known(item) /\ add(col, item)
CallUpdate ==
  \E col \in Cols, id \in Ids, item \in Items : Known(item) /\ update(col, id, item)
CallDelete == \E col \in Cols, id \in Ids : delete(col, id)
CallSaveSettings == \E s \in SettingsItems : saveSettings(s)

Next == init \/ effects \/ CallAdd \/ CallUpdate \/ CallDelete \/ CallSaveSettings

Spec == Init /\ [][Next]_vars

(***************************************************************************)
(* The mode scenarios: a browser whose localStorage holds any saved        *)
(* configuration and any local blob, in which the views call the gateway   *)
(* and connectCloud / disconnect while the remote store answers.           *)
(***************************************************************************)
\* cloud documents addDoc creates
MaxDocs == 2
\* page reloads
MaxReloads == 2

\* A snapshot an earlier session stored: one task, whose identifier this
\* session does not hand out again, and the one stage the user has kept.
Saved ==
  [InitialData EXCEPT
     !.tasks = <<[id |-> RandomUUID(MaxAdds + MaxDocs + 1), name |-> "a", estimatedCost |-> MaxCost]>>,
     !.stages = <<defaults[2]>>]

Configs == {"none", "valid", "invalid"}

Blobs == {NoItem, Corrupt, Stringify(Saved)}

\* What the remote store holds of this user from earlier sessions.
Stored ==
  [NoDocs EXCEPT
     !["tasks"] = <<[id |-> RandomUUID(MaxAdds + MaxDocs + 2),
                     data |-> [actualCost |-> MaxCost + 1, createdAt |-> ServerTimestamp]]>>]

ModeItems == {[estimatedCost |-> MaxCost]}

InitModes ==
  /\ mode = "loading"
  /\ data = InitialData
  /\ stats = Stats(InitialData.tasks, InitialData.misc)
  /\ storage \in [config : Configs, blob : Blobs]
  /\ uuid = 0
  /\ pending = TRUE
  /\ lastOp = Op("mount", "", 0)
  /\ user = "null"
  /\ db = "null"
  /\ initAt = "start"
  /\ remote \in {NoDocs, Stored}
  /\ autoId = 0
  /\ subs = NoSubs
  /\ reloads = 0
  /\ trip = NoTrip

ModeAdd ==
  \E item \in ModeItems :
    /\ IF mode = "cloud" THEN autoId < 1 ELSE uuid < 1
    /\ add("tasks", item)
CallConnectCloud ==
  \E config \in {"valid", "invalid"} : reloads < MaxReloads /\ connectCloud(config)
CallDisconnect == reloads < MaxReloads /\ disconnect
Respond == \E col \in Cols : respond(col)
Snapshot == \E col \in Cols : snapshot(col)

NextModes ==
  \/ init
  \/ signInResolved
  \/ signInRejected
  \/ effects
  \/ Respond
  \/ Snapshot
  \/ ModeAdd
  \/ CallConnectCloud
  \/ CallDisconnect

SpecModes == InitModes /\ [][NextModes]_vars

(***************************************************************************)
(* The cloud scenarios: a session that has just committed to cloud mode    *)
(* over an empty remote store, in which the views call the gateway while   *)
(* the remote store answers the listeners.                                 *)
(***************************************************************************)
CloudItems == {[name |-> "a"]}

\* The collections the views write to.
CloudCols == {"tasks", "misc_expenses"}

InitCloud ==
  /\ mode = "cloud"
  /\ data = InitialData
  /\ stats = Stats(InitialData.tasks, InitialData.misc)
  /\ storage = [config |-> "valid", blob |-> NoItem]
  /\ uuid = 0
  /\ pending = TRUE
  /\ lastOp = Op("signInResolved", "", 0)
  /\ user = "anonymous"
  /\ db = "firestore"
  /\ initAt = "returned"
  /\ remote = NoDocs
  /\ autoId = 0
  /\ subs = NoSubs
  /\ reloads = 0
  /\ trip = NoTrip

CloudAdd ==
  \E col \in CloudCols, item \in CloudItems : autoId < MaxDocs /\ add(col, item)
CloudUpdate ==
  \E col \in CloudCols, id \in 1..MaxDocs : update(col, id, [name |-> "b"])
CloudDelete == \E col \in CloudCols, id \in 1..MaxDocs : delete(col, id)
CloudSaveSettings ==
  \E s \in {[name |-> "a"], [id |-> SettingsId, name |-> "b"]} : saveSettings(s)

NextCloud ==
  \/ effects
  \/ Respond
  \/ Snapshot
  \/ CloudAdd
  \/ CloudUpdate
  \/ CloudDelete
  \/ CloudSaveSettings

SpecCloud == InitCloud /\ [][NextCloud]_vars

(***************************************************************************)
(* The cloud scenarios in which the views only add, so that the remote     *)
(* store stops changing.  Effects run after every committed render, the    *)
(* server answers every listener that stays open, and a callback that      *)
(* stays due is called; nothing is promised to a listener that is          *)
(* cancelled.                                                              *)
(***************************************************************************)
NextCloudFair == effects \/ Respond \/ Snapshot \/ CloudAdd

SpecCloudFair ==
  /\ InitCloud
  /\ [][NextCloudFair]_vars
  /\ WF_vars(effects)
  /\ \A col \in Cols : WF_vars(respond(col)) /\ WF_vars(snapshot(col))

(***************************************************************************)
(* The rollup scenarios: a local store after start-up, to which the views  *)
(* add tasks and misc expenses through the gateway.                        *)
(***************************************************************************)
Task(p, ty, s, o, a, e, q, c) ==
  [parentId |-> p, type |-> ty, selectedOptionId |-> s, isOptional |-> o,
   archived |-> a, estimatedCost |-> e, quotedCost |-> q, actualCost |-> c]

TaskIds(tasks) == {Num(tasks[i], "id") : i \in 1..Len(tasks)}

\* Cost figures of a forest task: estimated only, or paid.
ForestCosts ==
  {<<e, 0>> : e \in 0..MaxCost} \cup {<<0, MaxCost + 1>>}

\* The costs of the single-task scenarios, with the figures of the examples.
CostSamples == {0, 100, 120, 150}

\* An identifier no record ever carries.
NoSuchId == MaxTasks + MaxMisc + 1

\* The tasks a view adds under an existing task or as a root; a choice group
\* names no option, a task that is yet to be added, or a task that never is.
ForestItems ==
  {Task(p, "task", 0, o, FALSE, ec[1], 0, ec[2]) :
     p \in {0} \cup TaskIds(data.tasks), o \in BOOLEAN, ec \in ForestCosts}
  \cup
  {Task(p, "choice_group", s, FALSE, FALSE, ec[1], 0, ec[2]) :
     p \in {0} \cup TaskIds(data.tasks),
     s \in {0, NoSuchId} \cup ((uuid + 2)..(Len(data.misc) + MaxTasks)),
     ec \in ForestCosts}
  \cup
  {Task(p, "task", 0, FALSE, TRUE, ec[1], 0, ec[2]) :
     p \in {0} \cup TaskIds(data.tasks), ec \in ForestCosts}

CostItems ==
  {Task(0, "task", 0, o, FALSE, e, q, c) :
     o \in BOOLEAN, e \in CostSamples, q \in CostSamples, c \in CostSamples}

MiscItems == {EmptyObj, [amount |-> 50], [amount |-> 75]}

ForestLike(t) ==
  /\ Num(t, "estimatedCost") <= MaxCost + 1
  /\ Num(t, "quotedCost") = 0
  /\ Num(t, "actualCost") <= MaxCost + 1

AddForestTask ==
  /\ Len(data.tasks) + Len(data.misc) < MaxTasks
  /\ \A i \in 1..Len(data.tasks) : ForestLike(data.tasks[i])
  /\ \E item \in ForestItems : add("tasks", item)

AddCostTask ==
  /\ Len(data.tasks) = 0
  /\ Len(data.misc) = 0
  /\ \E item \in CostItems : add("tasks", item)

AddMisc ==
  /\ Len(data.tasks) = 0
  /\ Len(data.misc) < MaxMisc
  /\ \E item \in MiscItems : add("misc_expenses", item)

\* The store at rest after a first start in local mode.
InitRollup ==
  /\ mode = "local"
  /\ data = [InitialData EXCEPT !.stages = defaults]
  /\ stats = Stats(InitialData.tasks, InitialData.misc)
  /\ storage = [config |-> "none", blob |-> Stringify(data)]
  /\ uuid = 0
  /\ pending = FALSE
  /\ lastOp = Op("effects", "", 0)
  /\ user = "null"
  /\ db = "null"
  /\ initAt = "returned"
  /\ remote = NoDocs
  /\ autoId = 0
  /\ subs = NoSubs
  /\ reloads = 0
  /\ trip = NoTrip

NextRollup == effects \/ AddForestTask \/ AddCostTask \/ AddMisc

SpecRollup == InitRollup /\ [][NextRollup]_vars

(***************************************************************************)
(* The malformed-tree scenarios: the views add tasks whose parentId is any *)
(* identifier, that of the task itself, of a task added later, or of no    *)
(* task at all.  Every task has a cost.                                    *)
(***************************************************************************)
GraphItems ==
  {Task(p, ty, 0, FALSE, a, MaxCost, 0, 0) :
     p \in (0..MaxTasks) \cup {NoSuchId}, ty \in {"task", "choice_group"}, a \in BOOLEAN}

AddGraphTask ==
  /\ Len(data.tasks) < MaxTasks
  /\ \E item \in GraphItems : add("tasks", item)

NextGraph == effects \/ AddGraphTask

SpecGraph == InitRollup /\ [][NextGraph]_vars

(***************************************************************************)
(* The stage scenarios: a local store after start-up, in which the views   *)
(* add stages and delete stages, the default ones included.                *)
(***************************************************************************)
StageIds == Ids \cup {StageId(k) : k \in 1..4}

StageAdd == \E n \in Names : uuid < MaxAdds /\ add("stages", [name |-> n])

StageDelete == \E id \in StageIds : delete("stages", id)

NextStages == effects \/ StageAdd \/ StageDelete

SpecStages == InitRollup /\ [][NextStages]_vars

(***************************************************************************)
(* Vocabulary of the rollup properties, stated on the task list itself.    *)
(***************************************************************************)
TL == data.tasks

NonArchived(i) == ~Flag(TL[i], "archived")

IdAt(i) == Num(TL[i], "id")

\* The non-archived direct children of the task at index i.
Kids(i) == {k \in 1..Len(TL) : NonArchived(k) /\ Num(TL[k], "parentId") = IdAt(i)}

IsChoiceGroup(i) == TypeOf(TL[i]) = "choice_group"

\* The triple the rollup computes for the task at index i, as <<min, max, actual>>.
TripleAt(i) ==
  LET r == processNode(Visible(TL), IdAt(i)) IN <<r.min, r.max, r.act>>

\* The effective cost as the precedence rule words it: paid, quoted, estimated.
Effective(t) ==
  IF Num(t, "actualCost") > 0 THEN Num(t, "actualCost")
  ELSE IF Num(t, "quotedCost") # 0 THEN Num(t, "quotedCost")
  ELSE IF Num(t, "estimatedCost") # 0 THEN Num(t, "estimatedCost")
  ELSE 0

RECURSIVE SumOver(_, _)
SumOver(S, f) ==
  IF S = {} THEN 0
  ELSE LET x == CHOOSE y \in S : TRUE IN f[x] + SumOver(S \ {x}, f)

\* The task at index i is aggregated: it is not archived and neither is any
\* of its ancestors up to a task without parent.
RECURSIVE AggregatedD(_, _)
AggregatedD(i, fuel) ==
  /\ fuel > 0
  /\ NonArchived(i)
  /\ \/ Num(TL[i], "parentId") = 0
     \/ \E j \in 1..Len(TL) :
          IdAt(j) = Num(TL[i], "parentId") /\ AggregatedD(j, fuel - 1)

Aggregated(i) == AggregatedD(i, Len(TL))

AggregatedSet == {i \in 1..Len(TL) : Aggregated(i)}

LeafSet == {i \in AggregatedSet : Kids(i) = {}}

NoChoiceGroups == \A i \in 1..Len(TL) : ~IsChoiceGroup(i)

StatsTriple == <<stats.min, stats.max, stats.act>>

(***************************************************************************)
(* C1. A choice_group with children whose selectedOptionId names one of    *)
(* its non-archived direct children has exactly the selected child's       *)
(* {min, max, actual}, whatever the group's own cost fields are.           *)
(***************************************************************************)
C1_SelectedVerbatim ==
  \A i \in 1..Len(TL) : \A k \in Kids(i) :
    (NonArchived(i) /\ IsChoiceGroup(i) /\ IdAt(k) = Num(TL[i], "selectedOptionId"))
      => TripleAt(i) = TripleAt(k)

(***************************************************************************)
(* C2. As claimed: without choice groups and misc expenses, stats.max is   *)
(* the sum of the effective costs of the leaf tasks, and stats.min that    *)
(* sum without the optional leaves that have no actual cost.               *)
(***************************************************************************)
C2_LeafSums ==
  (NoChoiceGroups /\ data.misc = <<>>) =>
    /\ stats.max = SumOver(LeafSet, [i \in 1..Len(TL) |-> Effective(TL[i])])
    /\ stats.min = SumOver(LeafSet,
         [i \in 1..Len(TL) |->
            IF Flag(TL[i], "isOptional") /\ Num(TL[i], "actualCost") = 0
            THEN 0 ELSE Effective(TL[i])])

\* C2 as amended: without choice groups and misc expenses, stats.max is the
\* sum of the effective costs of all aggregated tasks, branches included, and
\* stats.min is that sum without the optional leaves that have no actual cost.
C2_AllTaskSums ==
  (NoChoiceGroups /\ data.misc = <<>>) =>
    /\ ~stats.thrown
    /\ stats.max = SumOver(AggregatedSet, [i \in 1..Len(TL) |-> Effective(TL[i])])
    /\ stats.min = SumOver(AggregatedSet,
         [i \in 1..Len(TL) |->
            IF Kids(i) = {} /\ Flag(TL[i], "isOptional") /\ Num(TL[i], "actualCost") = 0
            THEN 0 ELSE Effective(TL[i])])

\* A plain branch with a cost of its own over an optional and a plain leaf.
C2_Witness ==
  /\ NoChoiceGroups /\ data.misc = <<>> /\ Len(TL) = 3
  /\ lastOp.op = "add"
  /\ \E i \in AggregatedSet :
       /\ Effective(TL[i]) > 0
       /\ \E k \in Kids(i) : Flag(TL[k], "isOptional") /\ Effective(TL[k]) > 0
       /\ \E k \in Kids(i) : ~Flag(TL[k], "isOptional") /\ Effective(TL[k]) > 0
  /\ stats.min < stats.max

(***************************************************************************)
(* C3. A choice_group with children and no selectedOptionId contributes    *)
(* min = the least of its children's min, max = the greatest of their max, *)
(* actual = 0.                                                             *)
(***************************************************************************)
NoSelectionTriple(i) ==
  <<MinOf({TripleAt(k)[1] : k \in Kids(i)}),
    MaxOf({TripleAt(k)[2] : k \in Kids(i)}),
    0>>

C3_NoSelectionRange ==
  \A i \in 1..Len(TL) :
    (NonArchived(i) /\ IsChoiceGroup(i) /\ Kids(i) # {}
       /\ Num(TL[i], "selectedOptionId") = 0)
      => TripleAt(i) = NoSelectionTriple(i)

(***************************************************************************)
(* C4. A choice_group whose selectedOptionId matches none of its           *)
(* non-archived children is aggregated exactly as the same group without   *)
(* a selection.                                                            *)
(***************************************************************************)
Unselected(i) == [TL EXCEPT ![i] = [@ EXCEPT !["selectedOptionId"] = 0]]

C4_DanglingFallsBack ==
  \A i \in 1..Len(TL) :
    (NonArchived(i) /\ IsChoiceGroup(i) /\ Kids(i) # {}
       /\ Num(TL[i], "selectedOptionId") # 0
       /\ \A k \in Kids(i) : IdAt(k) # Num(TL[i], "selectedOptionId"))
      => /\ processNode(Visible(TL), IdAt(i))
              = processNode(Visible(Unselected(i)), IdAt(i))
         /\ stats = Stats(Unselected(i), data.misc)

(***************************************************************************)
(* C5. An archived task contributes nothing: the stats are those of the    *)
(* list in which its three cost fields are zero.                           *)
(***************************************************************************)
ZeroCosts(i) ==
  [TL EXCEPT ![i] = [@ EXCEPT !["estimatedCost"] = 0, !["quotedCost"] = 0,
                                !["actualCost"] = 0]]

C5_ArchivedContributesZero ==
  \A i \in 1..Len(TL) :
    Flag(TL[i], "archived") => stats = Stats(ZeroCosts(i), data.misc)

\* An archived task with a cost next to a counted task.
C5_Witness ==
  /\ lastOp.op = "add"
  /\ \E i \in 1..Len(TL) : Flag(TL[i], "archived") /\ Effective(TL[i]) > 0
  /\ \E i \in 1..Len(TL) : NonArchived(i) /\ Effective(TL[i]) > 0
  /\ stats.max > 0

(***************************************************************************)
(* C6. The sum of the misc amounts is added once to each of min, max and   *)
(* actual of the forest totals; without tasks all three equal that sum,    *)
(* and the amounts 50 and 75 give {125, 125, 125}.                         *)
(***************************************************************************)
MiscSum ==
  SumOver(1..Len(data.misc), [i \in 1..Len(data.misc) |-> Num(data.misc[i], "amount")])

C6_MiscAddedOnce ==
  LET forest == Stats(TL, <<>>) IN
    /\ StatsTriple = <<forest.min + MiscSum, forest.max + MiscSum, forest.act + MiscSum>>
    /\ (TL = <<>> => StatsTriple = <<MiscSum, MiscSum, MiscSum>>)
    /\ (TL = <<>> /\ Len(data.misc) = 2
          /\ {Num(data.misc[1], "amount"), Num(data.misc[2], "amount")} = {50, 75})
         => StatsTriple = <<125, 125, 125>>

\* Two misc expenses of 50 and 75 next to a task with a cost.
C6_Witness ==
  /\ lastOp.op = "add"
  /\ Len(data.misc) = 2
  /\ {Num(data.misc[1], "amount"), Num(data.misc[2], "amount")} = {50, 75}
  /\ Len(TL) = 1 /\ Effective(TL[1]) > 0 /\ NonArchived(1)
  /\ stats.max > 125

(***************************************************************************)
(* C7. The cost figure used for a task is actualCost if positive, else     *)
(* quotedCost if non-zero, else estimatedCost, else 0: it is what a task   *)
(* without children reports as max; estimated 100 alone gives 100, and     *)
(* with actual 150 gives 150.                                              *)
(***************************************************************************)
C7_Precedence ==
  /\ \A i \in 1..Len(TL) :
       (NonArchived(i) /\ Kids(i) = {}) => TripleAt(i)[2] = Effective(TL[i])
  /\ \A i \in 1..Len(TL) :
       (Len(TL) = 1 /\ NonArchived(i) /\ data.misc = <<>>) =>
         /\ stats.max = Effective(TL[i])
         /\ (Num(TL[i], "estimatedCost") = 100 /\ Num(TL[i], "quotedCost") = 0
               /\ Num(TL[i], "actualCost") = 0) => stats.max = 100
         /\ (Num(TL[i], "estimatedCost") = 100 /\ Num(TL[i], "quotedCost") = 0
               /\ Num(TL[i], "actualCost") = 150) => stats.max = 150

\* A task whose quoted cost beats its estimate.
C7_Witness ==
  /\ lastOp.op = "add"
  /\ Len(TL) = 1 /\ NonArchived(1)
  /\ Num(TL[1], "estimatedCost") = 100
  /\ Num(TL[1], "quotedCost") = 120
  /\ Num(TL[1], "actualCost") = 0
  /\ stats.max = 120

(***************************************************************************)
(* Vocabulary of the gateway properties.                                   *)
(***************************************************************************)
OtherKeys(key) == (ListKeys \cup {"settings"}) \ {key}

\* new is old with the fields of item written over it and nothing else lost.
MergedInto(old, item, new) ==
  /\ DOMAIN new = (DOMAIN old) \cup (DOMAIN item)
  /\ \A f \in DOMAIN item : new[f] = item[f]
  /\ \A f \in (DOMAIN old) \ (DOMAIN item) : new[f] = old[f]

IdsOf(list) == {Num(list[k], "id") : k \in 1..Len(list)}

UniqueIds(list) ==
  \A j, k \in 1..Len(list) : j # k => Num(list[j], "id") # Num(list[k], "id")

(***************************************************************************)
(* C8. In local mode update(collection, id, partial) writes the fields of  *)
(* partial over every record that carries the id and keeps its other       *)
(* fields; the other records, their order, the other collections and the   *)
(* settings are unchanged, and so is the collection when no record carries *)
(* the id.                                                                 *)
(***************************************************************************)
C8_UpdatePost(col, id, item) ==
  LET old == data[Key(col)]
      new == data'[Key(col)]
  IN  /\ Len(new) = Len(old)
      /\ \A k \in 1..Len(old) :
           IF Num(old[k], "id") = id
           THEN MergedInto(old[k], item, new[k])
           ELSE new[k] = old[k]
      /\ \A key \in OtherKeys(Key(col)) : data'[key] = data[key]
      /\ (id \notin IdsOf(old) => new = old)

C8_UpdateMerges ==
  [][(mode = "local" /\ lastOp'.op = "update") =>
       \A id \in Ids, item \in Items :
         update(lastOp'.col, id, item) => C8_UpdatePost(lastOp'.col, id, item)]_vars

\* An update has just rewritten one record of a list that holds others, and
\* the record has a field that a payload need not carry.
C8_Witness ==
  /\ mode = "local"
  /\ lastOp.op = "update"
  /\ lastOp.hit = 1
  /\ Len(data[Key(lastOp.col)]) >= 2
  /\ \E k \in 1..Len(data[Key(lastOp.col)]) :
       {"id", "name"} \subseteq DOMAIN data[Key(lastOp.col)][k]

(***************************************************************************)
(* C9. In local mode update is idempotent: right after                     *)
(* update(collection, id, partial), the same call once more leaves the     *)
(* whole snapshot as it is.                                                *)
(***************************************************************************)
C9_UpdateIdempotent ==
  [][(mode = "local" /\ lastOp'.op = "update") =>
       \A id \in Ids, item \in Items :
         update(lastOp'.col, id, item) =>
           [data' EXCEPT ![Key(lastOp'.col)] = UpdateIn(@, id, item)] = data']_vars

\* An update has just rewritten a task.
C9_Witness ==
  /\ mode = "local"
  /\ lastOp.op = "update"
  /\ lastOp.col = "tasks"
  /\ lastOp.hit >= 1
  /\ \E k \in 1..Len(data.tasks) : "name" \in DOMAIN data.tasks[k]

(***************************************************************************)
(* C10. In local mode add(collection, item) appends exactly one record,    *)
(* which carries an identifier, to the end of the list; after any add,     *)
(* update or delete no two records of a collection share an id, and no     *)
(* record that was there before has another id than it had.                *)
(***************************************************************************)
C10_AddPost(col, item) ==
  LET old == data[Key(col)]
      new == data'[Key(col)]
  IN  /\ Len(new) = Len(old) + 1
      /\ SubSeq(new, 1, Len(old)) = old
      /\ Num(new[Len(new)], "id") # 0

\* The records that stay keep their ids: the ids of the list read in order,
\* less those of the removed records, are the ids there were.
C10_IdsKept(key) ==
  \/ /\ Len(data'[key]) >= Len(data[key])
     /\ \A k \in 1..Len(data[key]) : Num(data'[key][k], "id") = Num(data[key][k], "id")
  \/ /\ Len(data'[key]) < Len(data[key])
     /\ IdsOf(data'[key]) \subseteq IdsOf(data[key])

C10_IdsUniqueAndStable ==
  [][(mode = "local" /\ lastOp'.op \in {"add", "update", "delete"}) =>
       /\ lastOp'.op = "add" =>
            \A item \in Items : add(lastOp'.col, item) => C10_AddPost(lastOp'.col, item)
       /\ \A key \in ListKeys :
            /\ UniqueIds(data[key]) => UniqueIds(data'[key])
            /\ C10_IdsKept(key)]_vars

(***************************************************************************)
(* C18. A plain branch (children, not a choice_group) reports the sums of  *)
(* its children's min and max plus its own effective cost, and as actual   *)
(* the sum of its children's actual plus its own actualCost counted once.  *)
(***************************************************************************)
C18_PlainBranchOnce ==
  \A i \in 1..Len(TL) :
    (NonArchived(i) /\ ~IsChoiceGroup(i) /\ Kids(i) # {}) =>
      TripleAt(i) =
        <<SumOver(Kids(i), [k \in 1..Len(TL) |-> TripleAt(k)[1]]) + Effective(TL[i]),
          SumOver(Kids(i), [k \in 1..Len(TL) |-> TripleAt(k)[2]]) + Effective(TL[i]),
          SumOver(Kids(i), [k \in 1..Len(TL) |-> TripleAt(k)[3]])
            + Num(TL[i], "actualCost")>>

(***************************************************************************)
(* C19. As claimed: a task without non-archived children reports its       *)
(* effective cost as max and as actual, and as min zero if it is optional  *)
(* without actual cost, else its effective cost.                           *)
(***************************************************************************)
LeafMin(t) ==
  IF Flag(t, "isOptional") /\ Num(t, "actualCost") = 0 THEN 0 ELSE Effective(t)

C19_LeafActualIsEffective ==
  \A i \in 1..Len(TL) :
    (NonArchived(i) /\ Kids(i) = {}) =>
      TripleAt(i) = <<LeafMin(TL[i]), Effective(TL[i]), Effective(TL[i])>>

\* C19 as amended: such a task reports its effective cost as max, its
\* recorded actualCost (zero if none) as actual, and as min zero if it is
\* optional without actual cost, else its effective cost.
C19_LeafTriple ==
  \A i \in 1..Len(TL) :
    (NonArchived(i) /\ Kids(i) = {}) =>
      TripleAt(i) = <<LeafMin(TL[i]), Effective(TL[i]), Num(TL[i], "actualCost")>>

\* An optional estimated leaf next to a paid one, under a common parent.
C19_Witness ==
  /\ lastOp.op = "add"
  /\ \E i, j \in 1..Len(TL) :
       /\ i # j /\ NonArchived(i) /\ NonArchived(j)
       /\ Kids(i) = {} /\ Kids(j) = {}
       /\ Num(TL[i], "parentId") # 0
       /\ Num(TL[i], "parentId") = Num(TL[j], "parentId")
       /\ Flag(TL[i], "isOptional") /\ Num(TL[i], "estimatedCost") > 0
       /\ Num(TL[i], "actualCost") = 0
       /\ Num(TL[j], "actualCost") > 0
       /\ TripleAt(i) = <<0, Num(TL[i], "estimatedCost"), 0>>

(***************************************************************************)
(* C11. In cloud mode no gateway call changes the in-memory snapshot: as   *)
(* long as the mode stays 'cloud', data changes only in a step that is the *)
(* snapshot callback of a subscription.                                    *)
(***************************************************************************)
C11_NoOptimisticUpdate ==
  [][(mode = "cloud" /\ mode' = "cloud" /\ data' # data) =>
       (lastOp'.op = "snapshot" /\ snapshot(lastOp'.col))]_vars

\* A task was added in cloud mode and the in-memory list does not hold it.
C11_Witness ==
  /\ mode = "cloud"
  /\ lastOp = Op("add", "tasks", 0)
  /\ Len(remote["tasks"]) > 0
  /\ data.tasks = <<>>

\* What a slice holds when it agrees with the remote collection.
SliceView(col) ==
  IF col = "tasks"
  THEN SelectSeq(SnapList(remote[col]), LAMBDA d : Num(d, "id") # SettingsId)
  ELSE SnapList(remote[col])

Consistent == \A col \in Cols : data[SliceOf(col)] = SliceView(col)

(***************************************************************************)
(* C12. In cloud mode, once the remote store has stopped changing, every   *)
(* subscribed slice eventually equals the content of its remote collection *)
(* and stays equal.                                                        *)
(***************************************************************************)
C12_EventuallyConsistent == <>[]Consistent

\* The blob as init merges it.
Merged ==
  \A k \in DOMAIN ParseOrEmpty(storage.blob) : data[k] = ParseOrEmpty(storage.blob)[k]

(***************************************************************************)
(* C13. init does not fail; while it runs the mode is 'loading' and when   *)
(* it is over the mode is 'local' or 'cloud'; it is 'cloud' only with a    *)
(* valid saved configuration and a signed-in user; without a valid         *)
(* configuration, or when sign-in fails, init ends in 'local' with the     *)
(* saved snapshot merged.                                                  *)
(***************************************************************************)
C13_ModeSelection ==
  /\ initAt # "rejected"
  /\ initAt \in {"start", "signIn"} => mode = "loading"
  /\ initAt = "returned" => mode \in {"local", "cloud"}
  /\ mode = "cloud" => (storage.config = "valid" /\ user # "null")
  /\ (lastOp.op = "init" /\ storage.config # "valid") => (mode = "local" /\ Merged)
  /\ lastOp.op = "signInRejected" => (mode = "local" /\ Merged)

(***************************************************************************)
(* C14. When init has taken the local path and the local blob is missing   *)
(* or unreadable, the mode is 'local' and, if nothing was added before,    *)
(* the snapshot is the empty default state.                                *)
(***************************************************************************)
C14_UnreadableBlobIsEmpty ==
  ( /\ storage.blob.kind \in {"null", "corrupt"}
    /\ \/ lastOp.op = "init" /\ storage.config # "valid"
       \/ lastOp.op = "signInRejected" )
  => ( /\ mode = "local"
       /\ initAt = "returned"
       /\ uuid = 0 => data = InitialData )

(***************************************************************************)
(* C15. connectCloud stores the configuration and restarts from 'loading'; *)
(* disconnect removes the configuration and restarts from 'loading'; the   *)
(* init that follows a disconnect ends in 'local'.                         *)
(***************************************************************************)
C15_ModeContract ==
  [][ /\ lastOp'.op = "connectCloud" =>
           ( /\ \E config \in Configs \ {"none"} :
                  connectCloud(config) /\ storage'.config = config
             /\ mode' = "loading" /\ initAt' = "start" /\ data' = InitialData )
      /\ lastOp'.op = "disconnect" =>
           ( /\ disconnect
             /\ storage'.config = "none"
             /\ mode' = "loading" /\ initAt' = "start" /\ data' = InitialData )
      /\ (lastOp.op = "disconnect" /\ lastOp'.op = "init") => mode' = "local" ]_vars

(***************************************************************************)
(* C16. After connectCloud was called in local mode and disconnect         *)
(* followed, with snapshot deliveries and no gateway call in between,      *)
(* local mode has the stats it had before; and no step taken in 'loading'  *)
(* or 'cloud' mode changes the stored local blob.                          *)
(***************************************************************************)
C16_RoundTrip ==
  /\ []((trip.stage = "disconnect" /\ mode = "local") => stats = trip.stats)
  /\ [][(mode \in {"loading", "cloud"}) => (storage'.blob = storage.blob)]_vars

\* Back in local mode with the stats of before, after cloud mode showed others.
C16_Witness ==
  /\ trip.stage = "disconnect"
  /\ trip.seen
  /\ mode = "local"
  /\ ~pending
  /\ stats = trip.stats
  /\ stats.max > 0

(***************************************************************************)
(* C17. In local mode, whenever no state update is pending, the stored     *)
(* blob is the serialization of the whole current snapshot, all lists and  *)
(* the settings.                                                           *)
(***************************************************************************)
C17_BlobIsSnapshot ==
  (mode = "local" /\ ~pending) =>
    (storage.blob.kind = "json" /\ storage.blob.value = data)

\* At rest after gateway calls and seeding: a record, settings, four stages.
C17_Witness ==
  /\ mode = "local"
  /\ ~pending
  /\ storage.blob.kind = "json"
  /\ Len(storage.blob.value.tasks) > 0
  /\ storage.blob.value.settings # EmptyObj
  /\ storage.blob.value.stages = defaults

(***************************************************************************)
(* C20. The snapshot callback of collection C makes the slice of C exactly *)
(* the delivered list (for tasks, without the record whose id is           *)
(* 'settings') and leaves every other list as it was (and, for other       *)
(* collections than tasks, the settings too).                              *)
(***************************************************************************)
C20_SnapshotReplaces ==
  [][(lastOp'.op = "snapshot" /\ snapshot(lastOp'.col)) =>
       LET col == lastOp'.col
           list == SnapList(remote[col])
       IN /\ data'[SliceOf(col)] =
               IF col = "tasks"
               THEN SelectSeq(list, LAMBDA d : Num(d, "id") # SettingsId)
               ELSE list
          /\ \A k \in ListKeys \ {SliceOf(col)} : data'[k] = data[k]
          /\ col # "tasks" => data'.settings = data.settings]_vars

\* A tasks snapshot of a task and the settings document was delivered while
\* the misc list held a record.
C20_Witness ==
  /\ lastOp = Op("snapshot", "tasks", 0)
  /\ pending
  /\ Len(remote["tasks"]) = 2
  /\ HasDoc(remote["tasks"], SettingsId)
  /\ Len(data.tasks) = 1
  /\ Len(data.misc) > 0

\* The chain of parents of the task at index i stays in the list for `fuel`
\* steps; with as many steps as there are tasks it has entered a cycle.
RECURSIVE ChainStays(_, _)
ChainStays(i, fuel) ==
  \/ fuel = 0
  \/ /\ Num(TL[i], "parentId") # 0
     /\ \E j \in 1..Len(TL) :
          IdAt(j) = Num(TL[i], "parentId") /\ ChainStays(j, fuel - 1)

OnCycleOrBelow(i) == ChainStays(i, Len(TL))

(***************************************************************************)
(* C27. With unique ids the rollup returns, also when parentId references  *)
(* form a cycle or a task is its own parent, and a task on a cycle or      *)
(* below one contributes nothing: the stats are those of the list in which *)
(* its cost fields are zero.                                               *)
(***************************************************************************)
C27_CyclesTerminate ==
  /\ ~stats.thrown
  /\ \A i \in 1..Len(TL) :
       OnCycleOrBelow(i) => stats = Stats(ZeroCosts(i), data.misc)

\* Two tasks that are each other's parent next to a counted task.
C27_Witness ==
  /\ lastOp.op = "effects"
  /\ \E i, j, k \in 1..Len(TL) :
       /\ i # j
       /\ NonArchived(i) /\ NonArchived(j) /\ NonArchived(k)
       /\ Num(TL[i], "parentId") = IdAt(j)
       /\ Num(TL[j], "parentId") = IdAt(i)
       /\ Num(TL[k], "parentId") = 0
       /\ StatsTriple = <<Effective(TL[k]), Effective(TL[k]), 0>>

(***************************************************************************)
(* C28. With non-negative cost fields and amounts stats.min <= stats.max,  *)
(* and min <= max in the triple computed for every task.                   *)
(***************************************************************************)
C28_MinAtMostMax ==
  /\ stats.min <= stats.max
  /\ \A i \in 1..Len(TL) : TripleAt(i)[1] <= TripleAt(i)[2]

\* A choice group without selection over a free and a priced option.
C28_Witness ==
  /\ lastOp.op = "add"
  /\ stats.min < stats.max
  /\ \E i \in 1..Len(TL) :
       /\ NonArchived(i) /\ IsChoiceGroup(i)
       /\ Num(TL[i], "selectedOptionId") = 0
       /\ Cardinality(Kids(i)) = 2
       /\ \E k \in Kids(i) : TripleAt(k)[1] < TripleAt(i)[2]

(***************************************************************************)
(* C29. A non-archived task that is not reachable from a non-archived task *)
(* without parentId through non-archived children (its parent, or an       *)
(* ancestor's parent, is archived or not in the list) contributes nothing: *)
(* the stats are those of the list in which its cost fields are zero.      *)
(***************************************************************************)
C29_UnreachableContributesZero ==
  \A i \in 1..Len(TL) :
    (NonArchived(i) /\ ~Aggregated(i)) => stats = Stats(ZeroCosts(i), data.misc)

\* A task under a parent that is not in the list, with a child of its own,
\* next to a counted task.
C29_Witness ==
  /\ lastOp.op = "effects"
  /\ \E i, j, k \in 1..Len(TL) :
       /\ NonArchived(i) /\ NonArchived(j) /\ NonArchived(k)
       /\ Num(TL[i], "parentId") = 0
       /\ Num(TL[j], "parentId") = NoSuchId
       /\ Num(TL[k], "parentId") = IdAt(j)
       /\ StatsTriple = <<Effective(TL[i]), Effective(TL[i]), 0>>

\* The four default stages as the seeding rule words them.
FourDefaults(stages) ==
  /\ Len(stages) = 4
  /\ \A k \in 1..4 :
       stages[k] = [id |-> StageId(k), name |-> StageName(k), order |-> k]

(***************************************************************************)
(* C25. When the effects run in local mode over an empty stage list the    *)
(* list becomes the four default stages with orders 1..4 in that order;    *)
(* over a stage list with a record they leave it as it is; init takes the  *)
(* stage list of the loaded blob as it is; and in cloud mode the stage     *)
(* list is never seeded.                                                   *)
(***************************************************************************)
C25_FirstRunSeeding ==
  /\ []((mode = "local" /\ ~pending) => Len(data.stages) > 0)
  /\ []((mode = "cloud") => data.stages = SnapList(remote["stages"]))
  /\ [][ /\ (lastOp'.op = "effects" /\ effects) =>
              IF mode = "local" /\ Len(data.stages) = 0
              THEN FourDefaults(data'.stages)
              ELSE data'.stages = data.stages
         /\ (lastOp'.op \in {"init", "signInRejected"} /\ mode' = "local") =>
              data'.stages =
                IF "stages" \in DOMAIN ParseOrEmpty(storage.blob)
                THEN ParseOrEmpty(storage.blob).stages
                ELSE data.stages ]_vars

\* Local mode over an empty store has just been seeded.
C25_Witness ==
  /\ mode = "local"
  /\ lastOp.op = "effects"
  /\ pending
  /\ reloads = 0
  /\ storage.blob = Stringify(InitialData)
  /\ FourDefaults(data.stages)

(***************************************************************************)
(* C30. In local mode with no update pending the stage list is not empty:  *)
(* when gateway calls have emptied it, the effects that follow install the *)
(* four default stages again.                                              *)
(***************************************************************************)
C30_StagesNeverEmpty ==
  /\ (mode = "local" /\ ~pending) => Len(data.stages) > 0
  /\ (mode = "local" /\ lastOp.op = "effects" /\ pending) => FourDefaults(data.stages)

\* The last stage was deleted and the defaults are back.
C30_Witness ==
  /\ mode = "local"
  /\ lastOp.op = "effects"
  /\ pending
  /\ storage.blob.kind = "json"
  /\ storage.blob.value.stages = <<>>
  /\ FourDefaults(data.stages)

(***************************************************************************)
(* C24. While the mode is 'loading' and stays so, no step within the       *)
(* session changes the in-memory snapshot, the remote store or the local   *)
(* blob: a gateway call made before a backend is committed has no effect.  *)
(***************************************************************************)
C24_NoEffectWhileLoading ==
  [][(mode = "loading" /\ mode' = "loading" /\ reloads' = reloads) =>
       (data' = data /\ remote' = remote /\ storage' = storage)]_vars

(***************************************************************************)
(* C26. Between two reloads the mode changes only from 'loading' to        *)
(* 'local' or from 'loading' to 'cloud'; once it is 'local' or 'cloud' no  *)
(* gateway call and no snapshot delivery changes it.                       *)
(***************************************************************************)
C26_ModeCommittedOnce ==
  [][(reloads' = reloads /\ mode' # mode) =>
       (mode = "loading" /\ mode' \in {"local", "cloud"})]_vars

\* Cloud mode is still committed after a gateway call and its snapshot.
C26_Witness ==
  /\ mode = "cloud"
  /\ lastOp = Op("snapshot", "tasks", 0)
  /\ autoId > 0
  /\ Len(data.tasks) = Len(remote["tasks"])
  /\ reloads = 0

\* The fields of the reserved document of the remote tasks collection.
SettingsFields ==
  remote["tasks"][CHOOSE k \in 1..Len(remote["tasks"]) :
                    remote["tasks"][k].id = SettingsId].data

C22_StandingSubscriptions ==
  [][(mode = "cloud" /\ mode' = "cloud") =>
       \A c \in Cols :
         subs[c] \in {"due", "idle"} => subs'[c] \in {"due", "idle"}]_vars

====
